---------------------------- MODULE Spec2Model ----------------------------
(***************************************************************************)
(* Model of the resume analyzer: utils/resume_parser.py,                   *)
(* utils/job_matcher.py and the analysis handler of App.py.                *)
(*                                                                         *)
(* A Python str is a sequence of character codes, so that str.lower,       *)
(* str.upper, str.split, str.endswith and the regular expressions are      *)
(* computed on the characters.  A Python list is a sequence, a Python set  *)
(* a set, a dict a record.  None is a value that is no string.             *)
(***************************************************************************)
EXTENDS Integers, Sequences, FiniteSets, TLC

(* ------------------------------ bounds --------------------------------- *)

\* longest skill list handed to compare_skills
MaxListLen == 2

\* most words in a text handed to skill extraction or to the scorer
MaxWords == 2

\* sessions (script threads) of the application running in one process
NumSessions == 2

\* runs of the script (one per user interaction) started in one process
MaxRuns == 2

(* --------------------------- Python values ----------------------------- *)

\* Python's None: a value that equals no string (no character has code -1)
None == <<-1>>

\* None where a Doc is expected: a value that equals no sequence of tokens
NoneDoc == <<None>>

\* a model handle (resume_parser.nlp, job_matcher.nlp_jm) that is None
Unset == "None"

\* a model handle holding the loaded language model
Loaded == "en_core_web_sm"

\* truth value of a str-or-None: `not x` is True for None and for ""
Truthy(x) == x # None /\ x # <<>>

\* one character of str.lower()
LowerChar(c) == IF c \in 65..90 THEN c + 32 ELSE c

\* one character of str.upper()
UpperChar(c) == IF c \in 97..122 THEN c - 32 ELSE c

\* str.lower()
lower(s) == [i \in 1..Len(s) |-> LowerChar(s[i])]

\* str.upper()
upper(s) == [i \in 1..Len(s) |-> UpperChar(s[i])]

\* the characters str.split() and the regex class \s treat as whitespace
IsSpace(c) == c \in {9, 10, 11, 12, 13, 32}

\* the regex class \d
IsDigit(c) == c \in 48..57

\* character i of s, or 0 past either end
At(s, i) == IF i \in 1..Len(s) THEN s[i] ELSE 0

RECURSIVE SplitFrom(_, _, _)
\* the words of s from position i on; cur is the word being read
SplitFrom(s, i, cur) ==
    IF i > Len(s)
    THEN IF cur = <<>> THEN <<>> ELSE <<cur>>
    ELSE IF IsSpace(s[i])
         THEN (IF cur = <<>> THEN <<>> ELSE <<cur>>) \o SplitFrom(s, i + 1, <<>>)
         ELSE SplitFrom(s, i + 1, Append(cur, s[i]))

\* str.split(): the maximal runs of non-whitespace characters
split(s) == SplitFrom(s, 1, <<>>)

\* str.endswith(suffix)
endswith(s, suffix) ==
    /\ Len(s) >= Len(suffix)
    /\ SubSeq(s, Len(s) - Len(suffix) + 1, Len(s)) = suffix

\* str.strip(): s without its leading and trailing whitespace
strip(s) ==
    IF \A i \in 1..Len(s) : IsSpace(s[i]) THEN <<>>
    ELSE SubSeq(s,
                CHOOSE i \in 1..Len(s) :
                    ~IsSpace(s[i]) /\ \A j \in 1..(i - 1) : IsSpace(s[j]),
                CHOOSE i \in 1..Len(s) :
                    ~IsSpace(s[i]) /\ \A j \in (i + 1)..Len(s) : IsSpace(s[j]))

\* os.path.splitext(name)[1] of a file name without directories: the name
\* from its last dot on, "" when it has no dot or only leading dots
splitext_ext(name) ==
    IF \A i \in 1..Len(name) : name[i] = 46 => \A j \in 1..i : name[j] = 46
    THEN <<>>
    ELSE SubSeq(name,
                CHOOSE i \in 1..Len(name) :
                    name[i] = 46 /\ \A j \in (i + 1)..Len(name) : name[j] # 46,
                Len(name))

\* set(xs) of a list
ToSet(xs) == {xs[i] : i \in 1..Len(xs)}

RECURSIVE list(_)
\* list(S) of a set: its elements once each, in an order the set decides
list(S) == IF S = {} THEN <<>>
           ELSE LET x == CHOOSE y \in S : TRUE IN <<x>> \o list(S \ {x})

RECURSIVE Join(_, _)
\* sep.join(xs)
Join(xs, sep) == IF xs = <<>> THEN <<>>
                 ELSE IF Len(xs) = 1 THEN xs[1]
                 ELSE xs[1] \o sep \o Join(Tail(xs), sep)

\* all sequences over S of length at most n
SeqsUpTo(S, n) == UNION {[1..k -> S] : k \in 0..n}

(* ------------------------ the skill vocabulary ------------------------- *)

\* resume_parser.extract_skills: the default skills_list
skills_list == <<
    <<112, 121, 116, 104, 111, 110>> (* "python" *), <<106, 97, 118, 97>> (* "java" *), <<99, 43, 43>> (* "c++" *), <<106, 97, 118, 97, 115, 99, 114, 105, 112, 116>> (* "javascript" *), <<114, 101, 97, 99, 116>> (* "react" *), <<97, 110, 103, 117, 108, 97, 114>> (* "angular" *),
    <<118, 117, 101>> (* "vue" *), <<110, 111, 100, 101, 46, 106, 115>> (* "node.js" *),
    <<115, 113, 108>> (* "sql" *), <<110, 111, 115, 113, 108>> (* "nosql" *), <<109, 111, 110, 103, 111, 100, 98>> (* "mongodb" *), <<112, 111, 115, 116, 103, 114, 101, 115, 113, 108>> (* "postgresql" *), <<109, 121, 115, 113, 108>> (* "mysql" *),
    <<97, 119, 115>> (* "aws" *), <<97, 122, 117, 114, 101>> (* "azure" *), <<103, 99, 112>> (* "gcp" *), <<100, 111, 99, 107, 101, 114>> (* "docker" *), <<107, 117, 98, 101, 114, 110, 101, 116, 101, 115>> (* "kubernetes" *),
    <<109, 97, 99, 104, 105, 110, 101, 32, 108, 101, 97, 114, 110, 105, 110, 103>> (* "machine learning" *), <<100, 101, 101, 112, 32, 108, 101, 97, 114, 110, 105, 110, 103>> (* "deep learning" *), <<116, 101, 110, 115, 111, 114, 102, 108, 111, 119>> (* "tensorflow" *), <<112, 121, 116, 111, 114, 99, 104>> (* "pytorch" *),
    <<107, 101, 114, 97, 115>> (* "keras" *), <<115, 99, 105, 107, 105, 116, 45, 108, 101, 97, 114, 110>> (* "scikit-learn" *),
    <<100, 97, 116, 97, 32, 97, 110, 97, 108, 121, 115, 105, 115>> (* "data analysis" *), <<100, 97, 116, 97, 32, 115, 99, 105, 101, 110, 99, 101>> (* "data science" *), <<112, 97, 110, 100, 97, 115>> (* "pandas" *), <<110, 117, 109, 112, 121>> (* "numpy" *),
    <<109, 97, 116, 112, 108, 111, 116, 108, 105, 98>> (* "matplotlib" *), <<115, 101, 97, 98, 111, 114, 110>> (* "seaborn" *),
    <<110, 97, 116, 117, 114, 97, 108, 32, 108, 97, 110, 103, 117, 97, 103, 101, 32, 112, 114, 111, 99, 101, 115, 115, 105, 110, 103>> (* "natural language processing" *), <<110, 108, 112>> (* "nlp" *), <<115, 112, 97, 99, 121>> (* "spacy" *), <<110, 108, 116, 107>> (* "nltk" *),
    <<97, 103, 105, 108, 101>> (* "agile" *), <<115, 99, 114, 117, 109>> (* "scrum" *), <<106, 105, 114, 97>> (* "jira" *), <<103, 105, 116>> (* "git" *), <<99, 111, 109, 109, 117, 110, 105, 99, 97, 116, 105, 111, 110>> (* "communication" *),
    <<112, 114, 111, 98, 108, 101, 109, 32, 115, 111, 108, 118, 105, 110, 103>> (* "problem solving" *), <<116, 101, 97, 109, 119, 111, 114, 107>> (* "teamwork" *) >>

\* a predefined_skills_list that has drifted from skills_list: "sql" was
\* dropped from it and "typescript" added
predefined_skills_list_drifted ==
    SelectSeq(skills_list, LAMBDA skill : skill # <<115, 113, 108>> (* "sql" *)) \o << <<116, 121, 112, 101, 115, 99, 114, 105, 112, 116>> (* "typescript" *) >>

\* job_matcher.extract_skills_from_text: the default predefined_skills_list
predefined_skills_list == <<
    <<112, 121, 116, 104, 111, 110>> (* "python" *), <<106, 97, 118, 97>> (* "java" *), <<99, 43, 43>> (* "c++" *), <<106, 97, 118, 97, 115, 99, 114, 105, 112, 116>> (* "javascript" *), <<114, 101, 97, 99, 116>> (* "react" *), <<97, 110, 103, 117, 108, 97, 114>> (* "angular" *),
    <<118, 117, 101>> (* "vue" *), <<110, 111, 100, 101, 46, 106, 115>> (* "node.js" *),
    <<115, 113, 108>> (* "sql" *), <<110, 111, 115, 113, 108>> (* "nosql" *), <<109, 111, 110, 103, 111, 100, 98>> (* "mongodb" *), <<112, 111, 115, 116, 103, 114, 101, 115, 113, 108>> (* "postgresql" *), <<109, 121, 115, 113, 108>> (* "mysql" *),
    <<97, 119, 115>> (* "aws" *), <<97, 122, 117, 114, 101>> (* "azure" *), <<103, 99, 112>> (* "gcp" *), <<100, 111, 99, 107, 101, 114>> (* "docker" *), <<107, 117, 98, 101, 114, 110, 101, 116, 101, 115>> (* "kubernetes" *),
    <<109, 97, 99, 104, 105, 110, 101, 32, 108, 101, 97, 114, 110, 105, 110, 103>> (* "machine learning" *), <<100, 101, 101, 112, 32, 108, 101, 97, 114, 110, 105, 110, 103>> (* "deep learning" *), <<116, 101, 110, 115, 111, 114, 102, 108, 111, 119>> (* "tensorflow" *), <<112, 121, 116, 111, 114, 99, 104>> (* "pytorch" *),
    <<107, 101, 114, 97, 115>> (* "keras" *), <<115, 99, 105, 107, 105, 116, 45, 108, 101, 97, 114, 110>> (* "scikit-learn" *),
    <<100, 97, 116, 97, 32, 97, 110, 97, 108, 121, 115, 105, 115>> (* "data analysis" *), <<100, 97, 116, 97, 32, 115, 99, 105, 101, 110, 99, 101>> (* "data science" *), <<112, 97, 110, 100, 97, 115>> (* "pandas" *), <<110, 117, 109, 112, 121>> (* "numpy" *),
    <<109, 97, 116, 112, 108, 111, 116, 108, 105, 98>> (* "matplotlib" *), <<115, 101, 97, 98, 111, 114, 110>> (* "seaborn" *),
    <<110, 97, 116, 117, 114, 97, 108, 32, 108, 97, 110, 103, 117, 97, 103, 101, 32, 112, 114, 111, 99, 101, 115, 115, 105, 110, 103>> (* "natural language processing" *), <<110, 108, 112>> (* "nlp" *), <<115, 112, 97, 99, 121>> (* "spacy" *), <<110, 108, 116, 107>> (* "nltk" *),
    <<97, 103, 105, 108, 101>> (* "agile" *), <<115, 99, 114, 117, 109>> (* "scrum" *), <<106, 105, 114, 97>> (* "jira" *), <<103, 105, 116>> (* "git" *), <<99, 111, 109, 109, 117, 110, 105, 99, 97, 116, 105, 111, 110>> (* "communication" *),
    <<112, 114, 111, 98, 108, 101, 109, 32, 115, 111, 108, 118, 105, 110, 103>> (* "problem solving" *), <<116, 101, 97, 109, 119, 111, 114, 107>> (* "teamwork" *) >>

\* extract_skills: the list returned when text_doc is None
SkillsNoDocument == << <<83, 107, 105, 108, 108, 115, 32, 78, 111, 116, 32, 70, 111, 117, 110, 100, 32, 40, 78, 111, 32, 100, 111, 99, 117, 109, 101, 110, 116, 32, 112, 114, 111, 99, 101, 115, 115, 101, 100, 41>> (* "Skills Not Found (No document processed)" *) >>

\* extract_skills: the list returned when no pattern matched
SkillsNoneFound == << <<78, 111, 32, 115, 112, 101, 99, 105, 102, 105, 99, 32, 115, 107, 105, 108, 108, 115, 32, 102, 111, 117, 110, 100, 32, 102, 114, 111, 109, 32, 116, 104, 101, 32, 112, 114, 101, 100, 101, 102, 105, 110, 101, 100, 32, 108, 105, 115, 116>> (* "No specific skills found from the predefined list" *) >>

(* --------------------------- skill matching ---------------------------- *)

\* nlp(text): the Doc of a text, its tokens in order (the tokenizer is taken
\* to cut at whitespace)
Doc(text) == split(text)

\* the Matcher pattern of a skill: [{"LOWER": token} for token in skill.split()]
Pattern(skill) == split(skill)

\* a pattern compared with the tokens as they are written, not lowercased
MatchesAt_exactcase(doc, pattern, i) ==
    /\ i + Len(pattern) - 1 <= Len(doc)
    /\ \A k \in 1..Len(pattern) : doc[i + k - 1] = pattern[k]

\* a pattern matches the tokens of doc from position i: each token's
\* lowercase form equals the pattern's word
MatchesAt(doc, pattern, i) ==
    /\ i + Len(pattern) - 1 <= Len(doc)
    /\ \A k \in 1..Len(pattern) : lower(doc[i + k - 1]) = pattern[k]

\* matcher(doc) after matcher.add(skill.upper(), [pattern]) for every skill:
\* the triples (match_id, start, end), match_id being the key skill.upper()
Matches(doc, skills) ==
    {<<upper(skills[n]), i, i + Len(Pattern(skills[n]))>> :
        <<n, i>> \in {p \in (1..Len(skills)) \X (1..Len(doc)) :
                         MatchesAt(doc, Pattern(skills[p[1]]), p[2])}}

\* found_skills holding the match keys as they are, not lowercased
FoundSkills_keys(doc, skills) == {m[1] : m \in Matches(doc, skills)}

\* found_skills: vocab.strings[match_id].lower() of every match
FoundSkills(doc, skills) == {lower(m[1]) : m \in Matches(doc, skills)}

\* resume_parser.extract_skills(text_doc) with the default skills_list
extract_skills(text_doc) ==
    IF text_doc = NoneDoc
    THEN SkillsNoDocument
    ELSE LET found_skills == FoundSkills(text_doc, skills_list)
         IN  IF found_skills # {} THEN list(found_skills) ELSE SkillsNoneFound

\* job_matcher.extract_skills_from_text(text, nlp_instance) with the default
\* predefined_skills_list; nlp_instance is None or the loaded model
extract_skills_from_text(text, nlp_instance) ==
    IF ~Truthy(text) \/ nlp_instance = Unset
    THEN <<>>
    ELSE list(FoundSkills(Doc(text), predefined_skills_list))

(* --------------------------- compare_skills ---------------------------- *)

\* compare_skills without the case normalisation of its two inputs
compare_skills_nolower(resume_skills, jd_skills) ==
    LET set_resume_skills == ToSet(resume_skills)
        set_jd_skills     == ToSet(jd_skills)
    IN  [matched_skills   |-> list(set_resume_skills \cap set_jd_skills),
         missing_skills   |-> list(set_jd_skills \ set_resume_skills),
         jd_skills_parsed |-> list(set_jd_skills)]

\* job_matcher.compare_skills
compare_skills(resume_skills, jd_skills) ==
    LET set_resume_skills == {lower(resume_skills[i]) : i \in 1..Len(resume_skills)}
        set_jd_skills     == {lower(jd_skills[i]) : i \in 1..Len(jd_skills)}
    IN  [matched_skills   |-> list(set_resume_skills \cap set_jd_skills),
         missing_skills   |-> list(set_jd_skills \ set_resume_skills),
         jd_skills_parsed |-> list(set_jd_skills)]

(* ---------------------------- extract_phone ---------------------------- *)

\* extract_phone: the value returned when text is None
PhoneNoText == <<80, 104, 111, 110, 101, 32, 78, 111, 116, 32, 70, 111, 117, 110, 100, 32, 40, 78, 111, 32, 116, 101, 120, 116, 32, 112, 114, 111, 118, 105, 100, 101, 100, 41>> (* "Phone Not Found (No text provided)" *)

\* extract_phone: the value returned when the pattern matches nowhere
PhoneNotFound == <<80, 104, 111, 110, 101, 32, 78, 111, 116, 32, 70, 111, 117, 110, 100>> (* "Phone Not Found" *)

\* the regex class [-\.\s]
IsSep(c) == c \in {45, 46} \/ IsSpace(c)

\* the digits \d{n} at positions i .. i+n-1 of s
DigitsAt(s, i, n) == \A k \in 0..(n - 1) : IsDigit(At(s, i + k))

\* The choices the regex engine makes while matching phone_regex
\*   (\+?\d{1,3}[-\.\s]?)?(\(\d{3}\)|\d{3})[-\.\s]?\d{3}[-\.\s]?\d{4}
\* g1: group 1 takes part; plus: \+ is taken; n: digits taken by \d{1,3};
\* s1, s2, s3: the three optional separators are taken; paren: the
\* alternative \(\d{3}\) of group 2 is taken.  Backtracking tries an optional
\* part present before absent, more digits before fewer and the first
\* alternative before the second, so the choices are tried in the order
\* ChoiceOf(0), ChoiceOf(1), ...: the 96 with group 1, then the 8 without.
ChoiceOf(k) ==
    IF k < 96
    THEN [g1 |-> TRUE, plus |-> (k \div 48) = 0, n |-> 3 - ((k \div 16) % 3),
          s1 |-> (k \div 8) % 2 = 0, paren |-> (k \div 4) % 2 = 0,
          s2 |-> (k \div 2) % 2 = 0, s3 |-> k % 2 = 0]
    ELSE [g1 |-> FALSE, plus |-> FALSE, n |-> 0,
          s1 |-> FALSE, paren |-> ((k - 96) \div 4) % 2 = 0,
          s2 |-> ((k - 96) \div 2) % 2 = 0, s3 |-> (k - 96) % 2 = 0]

\* the number of choices
NumChoices == 104

\* the choices in the order they are tried, Choices[k + 1] being ChoiceOf(k)
Choices == [k \in 1..NumChoices |-> ChoiceOf(k - 1)]

\* 1 for a part that is taken, 0 for one that is not
Taken(b) == IF b THEN 1 ELSE 0

\* where the digits of group 1 start when phone_regex is matched at p
D1(p, c) == p + Taken(c.plus)

\* where group 1 ends and group 2 starts
E1(p, c) == IF c.g1 THEN p + Taken(c.plus) + c.n + Taken(c.s1) ELSE p

\* where group 2 ends
E2(p, c) == E1(p, c) + (IF c.paren THEN 5 ELSE 3)

\* where the exchange \d{3} starts
X(p, c) == E2(p, c) + Taken(c.s2)

\* where the line number \d{4} starts
Y(p, c) == X(p, c) + 3 + Taken(c.s3)

\* where the whole match ends
End(p, c) == Y(p, c) + 4

\* phone_regex matches at position p of s under choice c
MatchesUnder(s, p, c) ==
    /\ (c.g1 /\ c.plus) => At(s, p) = 43
    /\ c.g1 => DigitsAt(s, D1(p, c), c.n)
    /\ (c.g1 /\ c.s1) => IsSep(At(s, D1(p, c) + c.n))
    /\ IF c.paren
       THEN /\ At(s, E1(p, c)) = 40
            /\ DigitsAt(s, E1(p, c) + 1, 3)
            /\ At(s, E1(p, c) + 4) = 41
       ELSE DigitsAt(s, E1(p, c), 3)
    /\ c.s2 => IsSep(At(s, E2(p, c)))
    /\ DigitsAt(s, X(p, c), 3)
    /\ c.s3 => IsSep(At(s, X(p, c) + 3))
    /\ DigitsAt(s, Y(p, c), 4)

\* the choices under which phone_regex matches at position p of s
ChoicesMatching(s, p) ==
    {k \in 0..(NumChoices - 1) : MatchesUnder(s, p, Choices[k + 1])}

\* the least element of a non-empty set of integers
Least(S) == CHOOSE k \in S : \A j \in S : k <= j

\* the first choice under which phone_regex matches at position p of s, or
\* -1 when it matches under none: the match the engine reports
FirstChoice(s, p) ==
    LET ok == ChoicesMatching(s, p) IN IF ok = {} THEN -1 ELSE Least(ok)

\* a character phone_regex can start with: "+", "(" or a digit
IsPhoneStart(c) == c \in {40, 43} \/ IsDigit(c)

\* the positions from p on at which phone_regex matches
MatchPositions(s, p) ==
    {q \in p..Len(s) : IsPhoneStart(s[q]) /\ ChoicesMatching(s, q) # {}}

\* the match at position p under choice c: the text of its two groups ("" for
\* a group that took no part), the whole matched text, and where it ends
MatchWith(s, p, c) ==
    [groups |-> <<SubSeq(s, p, E1(p, c) - 1), SubSeq(s, E1(p, c), E2(p, c) - 1)>>,
     full   |-> SubSeq(s, p, End(p, c) - 1),
     end    |-> End(p, c)]

\* the match at position p: that of the first choice that matches there
MatchAt(s, p) == MatchWith(s, p, Choices[FirstChoice(s, p) + 1])

RECURSIVE ScanFrom(_, _)
\* the successive non-overlapping matches of phone_regex in s from p on,
\* leftmost first
ScanFrom(s, p) ==
    LET ps == MatchPositions(s, p)
    IN  IF ps = {} THEN <<>>
        ELSE LET m == MatchAt(s, Least(ps)) IN <<m>> \o ScanFrom(s, m.end)

\* what re.findall reports of a list of matches of a pattern with groups:
\* for each match the tuple of its groups, not the matched text
GroupsOf(ms) == [i \in 1..Len(ms) |-> ms[i].groups]

\* re.findall(phone_regex, text)
findall_phone(text) == GroupsOf(ScanFrom(text, 1))

\* re.sub(r"[^0-9]", "", s)
DigitsOnly(s) == SelectSeq(s, IsDigit)

\* "".join(m for m in match if m)
JoinNonEmpty(match) == Join(SelectSeq(match, LAMBDA m : m # <<>>), <<>>)

\* resume_parser.extract_phone
extract_phone(text) ==
    IF text = None
    THEN PhoneNoText
    ELSE LET matches == findall_phone(text)
         IN  IF matches # <<>>
             THEN DigitsOnly(JoinNonEmpty(matches[1]))
             ELSE PhoneNotFound

(* -------------------------- match_resume_to_jd ------------------------- *)

\* words of TfidfVectorizer's English stop-word list
StopWords == { <<116, 104, 101>> (* "the" *), <<97, 110, 100>> (* "and" *), <<111, 102>> (* "of" *), <<105, 115>> (* "is" *) }

\* the terms TfidfVectorizer(stop_words='english') keeps of a text: its
\* lowercased words of two characters or more that are no stop words
Terms(text) ==
    {w \in {lower(t) : t \in ToSet(split(text))} : Len(w) >= 2 /\ w \notin StopWords}

\* vectorizer.fit_transform([resume_text, jd_text]) raises ValueError (empty
\* vocabulary) when no term is left in either text
FitTransformRaises(resume_text, jd_text) ==
    Terms(resume_text) \cup Terms(jd_text) = {}

\* round(x, 2) of a percentage given in millionths of the cosine: the result
\* in hundredths of a percent, a tie going to the even neighbour
Round2(cos) ==
    LET q == cos \div 100
        r == cos % 100
    IN  IF r > 50 \/ (r = 50 /\ q % 2 = 1) THEN q + 1 ELSE q

\* match_resume_to_jd with the try/except around vectorization removed
match_resume_to_jd_notry(resume_text, jd_text, fault, cos) ==
    IF ~Truthy(resume_text) \/ ~Truthy(jd_text)
    THEN [value |-> 0, raised |-> FALSE, vectorized |-> FALSE]
    ELSE IF fault # "none" \/ FitTransformRaises(resume_text, jd_text)
         THEN [value |-> -1, raised |-> TRUE, vectorized |-> TRUE]
         ELSE [value |-> Round2(cos), raised |-> FALSE, vectorized |-> TRUE]

\* match_resume_to_jd with the guard on empty inputs removed
match_resume_to_jd_noguard(resume_text, jd_text, fault, cos) ==
    IF fault # "none" \/ resume_text = None \/ jd_text = None
          \/ FitTransformRaises(resume_text, jd_text)
    THEN [value |-> 0, raised |-> FALSE, vectorized |-> TRUE]
    ELSE [value |-> Round2(cos), raised |-> FALSE, vectorized |-> TRUE]

\* job_matcher.match_resume_to_jd.  fault is the library call that raises in
\* this call ("none", "fit_transform" or "cosine_similarity") and cos the
\* cosine the library computes, in millionths.  The result records the
\* value returned (in hundredths of a percent), whether an exception left
\* the function, and whether the vectorizer was invoked.
match_resume_to_jd(resume_text, jd_text, fault, cos) ==
    IF ~Truthy(resume_text) \/ ~Truthy(jd_text)
    THEN [value |-> 0, raised |-> FALSE, vectorized |-> FALSE]
    ELSE IF fault # "none" \/ FitTransformRaises(resume_text, jd_text)
         THEN [value |-> 0, raised |-> FALSE, vectorized |-> TRUE]
         ELSE [value |-> Round2(cos), raised |-> FALSE, vectorized |-> TRUE]

(* --------------------------- text extraction --------------------------- *)

\* what the reader finds at a path: a file it cannot decode, no file at all,
\* or a file whose text is the given string
Corrupt == <<-2>>
Missing == <<-3>>

\* resume_parser.extract_text_from_pdf: the text of the file, None when
\* opening or decoding it raised (the exception is caught and printed)
extract_text_from_pdf(content) ==
    IF content \in {Corrupt, Missing} THEN None ELSE content

\* resume_parser.extract_text_from_docx: likewise
extract_text_from_docx(content) ==
    IF content \in {Corrupt, Missing} THEN None ELSE content

\* resume_parser.extract_text_from_file; content is what is stored at file_path
extract_text_from_file(file_path, content) ==
    IF ~Truthy(file_path) THEN None
    ELSE IF endswith(file_path, <<46, 112, 100, 102>> (* ".pdf" *)) THEN extract_text_from_pdf(content)
    ELSE IF endswith(file_path, <<46, 100, 111, 99, 120>> (* ".docx" *)) THEN extract_text_from_docx(content)
    ELSE None

\* parse_resume's test of the extracted text that only looks for None
NoTextExtracted_onlyNone(text) == text = None

\* parse_resume line 188, `if not text`: extraction failed or found no text
NoTextExtracted(text) == ~Truthy(text)

\* the dict parse_resume returns on a failure
ErrorRecord(msg) == [error |-> msg]

(* --------------------- name, email and education ----------------------- *)

\* extract_name: the string returned when text_doc is None
NameNoDocument == <<78, 97, 109, 101, 32, 78, 111, 116, 32, 70, 111, 117, 110, 100, 32, 40, 78, 111, 32, 100, 111, 99, 117, 109, 101, 110, 116, 32, 112, 114, 111, 99, 101, 115, 115, 101, 100, 41>> (* "Name Not Found (No document processed)" *)

\* extract_name: the string returned when no entity is a PERSON
NameNotFound == <<78, 97, 109, 101, 32, 78, 111, 116, 32, 70, 111, 117, 110, 100>> (* "Name Not Found" *)

\* the label of a person entity
PERSON == <<80, 69, 82, 83, 79, 78>> (* "PERSON" *)

\* doc.ents as the model's entity recogniser may produce them for a text:
\* none, or an organisation followed by a person, each a pair <<label_,
\* text>> whose text is a word of the text
EntsOf(text) ==
    LET ws == split(text)
    IN  IF ws = <<>> THEN {<<>>}
        ELSE {<<>>, << <<<<79, 82, 71>> (* "ORG" *), ws[1]>>, <<PERSON, ws[Len(ws)]>> >>}

\* resume_parser.extract_name; ents is text_doc.ents, NoneDoc for no document
extract_name(ents) ==
    IF ents = NoneDoc THEN NameNoDocument
    ELSE IF \E i \in 1..Len(ents) : ents[i][1] = PERSON
         THEN strip(ents[CHOOSE i \in 1..Len(ents) :
                            /\ ents[i][1] = PERSON
                            /\ \A j \in 1..(i - 1) : ents[j][1] # PERSON][2])
         ELSE NameNotFound

\* extract_email: the string returned when text is None
EmailNoText == <<69, 109, 97, 105, 108, 32, 78, 111, 116, 32, 70, 111, 117, 110, 100, 32, 40, 78, 111, 32, 116, 101, 120, 116, 32, 112, 114, 111, 118, 105, 100, 101, 100, 41>> (* "Email Not Found (No text provided)" *)

\* extract_email: the string returned when email_regex matches nowhere
EmailNotFound == <<69, 109, 97, 105, 108, 32, 78, 111, 116, 32, 70, 111, 117, 110, 100>> (* "Email Not Found" *)

\* the regex class [a-zA-Z]
IsAlpha(c) == c \in 65..90 \/ c \in 97..122

\* the regex class [a-zA-Z0-9.-]
IsDomainChar(c) == IsAlpha(c) \/ IsDigit(c) \/ c \in {45, 46}

\* the regex class [a-zA-Z0-9._%+-]
IsLocalChar(c) == IsAlpha(c) \/ IsDigit(c) \/ c \in {37, 43, 45, 46, 95}

\* where the longest run of [a-zA-Z0-9._%+-] that ends just before j starts
LocalStart(s, j) ==
    CHOOSE i \in 1..j : /\ \A k \in i..(j - 1) : IsLocalChar(s[k])
                        /\ (i > 1 => ~IsLocalChar(s[i - 1]))

\* where the longest run of characters of the class starting at i ends
\* (i - 1 when s[i] is not of the class)
DomainEnd(s, i) ==
    CHOOSE e \in (i - 1)..Len(s) : /\ \A k \in i..e : IsDomainChar(s[k])
                                   /\ ~IsDomainChar(At(s, e + 1))

\* likewise for [a-zA-Z]
AlphaEnd(s, i) ==
    CHOOSE e \in (i - 1)..Len(s) : /\ \A k \in i..e : IsAlpha(s[k])
                                   /\ ~IsAlpha(At(s, e + 1))

\* the positions of the dot before the top-level domain with which
\* email_regex matches around the "<<32, 97, 116, 32, 106, 58, 32, 91, 97, 45, 122, 65, 45, 90, 48, 45, 57, 46, 45, 93, 43, 32, 98, 101, 102, 111, 114, 101, 32, 116, 104, 101, 32, 100, 111, 116, 44, 10, 92, 42, 32, 91, 97, 45, 122, 65, 45, 90, 93, 123, 50, 44, 125, 32, 97, 102, 116, 101, 114, 32, 105, 116, 10, 69, 109, 97, 105, 108, 68, 111, 116, 115, 40, 115, 44, 32, 106, 41, 32, 61, 61, 10, 32, 32, 32, 32, 123, 107, 32, 92, 105, 110, 32, 40, 106, 32, 43, 32, 50, 41, 46, 46, 68, 111, 109, 97, 105, 110, 69, 110, 100, 40, 115, 44, 32, 106, 32, 43, 32, 49, 41, 32, 58, 32, 115, 91, 107, 93, 32, 61, 32, 52, 54, 32, 47, 92, 32, 65, 108, 112, 104, 97, 69, 110, 100, 40, 115, 44, 32, 107, 32, 43, 32, 49, 41, 32, 62, 61, 32, 107, 32, 43, 32, 50, 125, 10, 10, 92, 42, 32, 116, 104, 101, 32, 112, 111, 115, 105, 116, 105, 111, 110, 115, 32, 111, 102, 32, 116, 104, 101, 32>> (* " at j: [a-zA-Z0-9.-]+ before the dot,
\* [a-zA-Z]{2,} after it
EmailDots(s, j) ==
    {k \in (j + 2)..DomainEnd(s, j + 1) : s[k] = 46 /\ AlphaEnd(s, k + 1) >= k + 2}

\* the positions of the " *)" around which email_regex matches
EmailAts(s) ==
    {j \in 2..Len(s) : s[j] = 64 /\ LocalStart(s, j) < j /\ EmailDots(s, j) # {}}

\* the greatest element of a non-empty set of numbers
Greatest(S) == CHOOSE x \in S : \A y \in S : y <= x

\* re.findall(email_regex, text)[0]: the leftmost match; every quantifier is
\* greedy, so the domain reaches to the last dot that letters follow
FirstEmail(s) ==
    LET j == Least(EmailAts(s))
        k == Greatest(EmailDots(s, j))
    IN  SubSeq(s, LocalStart(s, j), AlphaEnd(s, k + 1))

\* resume_parser.extract_email
extract_email(text) ==
    IF text = None THEN EmailNoText
    ELSE IF EmailAts(text) # {} THEN FirstEmail(text) ELSE EmailNotFound

\* extract_education: the string returned when text_doc is None
EducationNoDocument == <<69, 100, 117, 99, 97, 116, 105, 111, 110, 32, 78, 111, 116, 32, 70, 111, 117, 110, 100, 32, 40, 78, 111, 32, 100, 111, 99, 117, 109, 101, 110, 116, 32, 112, 114, 111, 99, 101, 115, 115, 101, 100, 41>> (* "Education Not Found (No document processed)" *)

\* extract_education: the string returned when no sentence has a keyword
EducationNotFound == <<69, 100, 117, 99, 97, 116, 105, 111, 110, 32, 105, 110, 102, 111, 114, 109, 97, 116, 105, 111, 110, 32, 110, 111, 116, 32, 99, 108, 101, 97, 114, 108, 121, 32, 102, 111, 117, 110, 100>> (* "Education information not clearly found" *)

\* extract_education: education_keywords
education_keywords == <<
    <<101, 100, 117, 99, 97, 116, 105, 111, 110>> (* "education" *), <<117, 110, 105, 118, 101, 114, 115, 105, 116, 121>> (* "university" *), <<99, 111, 108, 108, 101, 103, 101>> (* "college" *), <<105, 110, 115, 116, 105, 116, 117, 116, 101>> (* "institute" *), <<98, 97, 99, 104, 101, 108, 111, 114>> (* "bachelor" *),
    <<109, 97, 115, 116, 101, 114>> (* "master" *), <<112, 104, 100>> (* "phd" *), <<100, 101, 103, 114, 101, 101>> (* "degree" *), <<113, 117, 97, 108, 105, 102, 105, 99, 97, 116, 105, 111, 110>> (* "qualification" *), <<97, 99, 97, 100, 101, 109, 105, 99>> (* "academic" *),
    <<115, 99, 104, 111, 111, 108>> (* "school" *), <<99, 103, 112, 97>> (* "cgpa" *), <<103, 112, 97>> (* "gpa" *) >>

\* Python's `sub in s` for strings
Contains(s, sub) ==
    \E i \in 1..(Len(s) - Len(sub) + 1) : SubSeq(s, i, i + Len(sub) - 1) = sub

\* doc.sents as the model's sentence splitter may produce them for a text:
\* the whole text, or the text cut in two after a full stop
SentsOf(text) ==
    {<<text>>} \cup
    {<<SubSeq(text, 1, i), SubSeq(text, i + 1, Len(text))>> :
        i \in {k \in 1..(Len(text) - 1) : text[k] = 46 /\ IsSpace(text[k + 1])}}

\* the sentences that contain an education keyword, in lowercase
EducationSentences(sents) ==
    SelectSeq(sents, LAMBDA sent :
        \E n \in 1..Len(education_keywords) :
            Contains(lower(sent), education_keywords[n]))

\* the stripped form of every string of a list
StripAll(xs) == [i \in 1..Len(xs) |-> strip(xs[i])]

\* resume_parser.extract_education; sents is text_doc.sents, NoneDoc for no
\* document
extract_education(sents) ==
    IF sents = NoneDoc THEN EducationNoDocument
    ELSE IF EducationSentences(sents) # <<>>
         THEN Join(StripAll(EducationSentences(sents)), <<10>>)
         ELSE EducationNotFound

\* parse_resume: the placeholder stored under "no_of_pages"
NoOfPages == <<78, 47, 65, 32, 40, 112, 100, 102, 109, 105, 110, 101, 114, 32, 115, 112, 101, 99, 105, 102, 105, 99, 41>> (* "N/A (pdfminer specific)" *)

\* a parse in which the first field missed ends the extraction: the fields
\* after it are reported as missed too
FieldsOf_missEndsParse(text, ents, sents) ==
    LET missed == extract_name(ents) = NameNotFound
    IN  [text        |-> text,
         name        |-> extract_name(ents),
         email       |-> IF missed THEN EmailNotFound ELSE extract_email(text),
         phone       |-> IF missed THEN PhoneNotFound ELSE extract_phone(text),
         education   |-> IF missed THEN EducationNotFound ELSE extract_education(sents),
         skills      |-> IF missed THEN SkillsNoneFound ELSE extract_skills(Doc(text)),
         no_of_pages |-> NoOfPages]

\* parse_resume lines 196-212: the fields extracted from a text and from
\* the entities and sentences of its Doc
FieldsOf(text, ents, sents) ==
    [text        |-> text,
     name        |-> extract_name(ents),
     email       |-> extract_email(text),
     phone       |-> extract_phone(text),
     education   |-> extract_education(sents),
     skills      |-> extract_skills(Doc(text)),
     no_of_pages |-> NoOfPages]

(* ------------------------------- state --------------------------------- *)

VARIABLES
    call,    \* the library function being called directly, with its arguments
    ret,     \* [value |-> what the call returned], NoRet before it returns
    nlp,     \* resume_parser.nlp
    nlp_jm,  \* job_matcher.nlp_jm
    loads,   \* successful spacy.load calls so far, per handle
    disk,    \* the temporary files on disk, by the run that created them
    runs,    \* runs of the script started so far
    pc,      \* where each session's thread is
    loc      \* each session's local variables

vars == <<call, ret, nlp, nlp_jm, loads, disk, runs, pc, loc>>

\* the variables of the application
appVars == <<nlp, nlp_jm, loads, disk, runs, pc, loc>>

Sessions == 1..NumSessions

\* no value returned yet
NoRet == [pending |-> TRUE]

\* no direct call of a library function
NoCall == [fn |-> "none"]

\* no dict assigned yet
NoData == [unset |-> TRUE]

\* st.file_uploader returned None
NoUpload == [name |-> <<>>, content |-> None]

\* a session's locals at the start of a run
Locals0 ==
    [run            |-> 0,         \* the number of this run
     analysing      |-> FALSE,     \* the guard of line 72 held
     uploaded       |-> NoUpload,  \* uploaded_resume_file
     jd             |-> <<>>,      \* job_description_text
     created        |-> 0,         \* the temp file NamedTemporaryFile created
     temp_file_path |-> 0,         \* temp_file_path, 0 for None
     caller         |-> "none",    \* who called parse_resume
     file_path      |-> None,      \* parse_resume's argument
     found          |-> Missing,   \* what the reader found at file_path
     text           |-> None,      \* parse_resume's text
     ents           |-> <<>>,      \* doc.ents of parse_resume's doc
     sents          |-> <<>>,      \* doc.sents of parse_resume's doc
     fields_ran     |-> FALSE,     \* field extraction ran in this call
     resume_data    |-> NoData,    \* what parse_resume returned
     score          |-> 0,         \* overall_match_score, hundredths of a percent
     jd_skills      |-> <<>>,      \* jd_extracted_skills
     resume_skills  |-> <<>>,      \* the resume skills handed to compare_skills
     comparison     |-> NoData,    \* skills_comparison_results
     shown          |-> <<>>,      \* the st.error/st.warning/st.success boxes shown
     jm_failed      |-> FALSE,     \* a load of nlp_jm failed in this run
     nlp_failed     |-> FALSE,     \* a load of nlp failed in this run
     before         |-> [jm_failed |-> FALSE, nlp_failed |-> FALSE]]
                                   \* history: the loads that failed in the
                                   \* session's previous direct call

InitApp ==
    /\ nlp = Unset
    /\ nlp_jm = Unset
    /\ loads = [parser |-> 0, jm |-> 0]
    /\ disk = {}
    /\ runs = 0
    /\ pc = [t \in Sessions |-> "idle"]
    /\ loc = [t \in Sessions |-> Locals0]

(* ------------------------- the application's input --------------------- *)

\* the files a user uploads: name and what a reader finds in the file
Uploads ==
    {[name |-> <<99, 118, 46, 112, 100, 102>> (* "cv.pdf" *),  content |-> <<80, 89, 84, 72, 79, 78, 32, 100, 101, 118>> (* "PYTHON dev" *) ],
     [name |-> <<99, 118, 46, 100, 111, 99, 120>> (* "cv.docx" *), content |-> <<104, 101, 108, 108, 111, 32, 116, 104, 101>> (* "hello the" *) ],
     [name |-> <<99, 118, 46, 112, 100, 102>> (* "cv.pdf" *),  content |-> Corrupt]}

\* the job descriptions a user pastes
JobDescriptions == { <<112, 121, 116, 104, 111, 110, 32, 115, 113, 108>> (* "python sql" *), <<32, 32>> (* "  " *) }

\* the cosine the library computes for two texts, in millionths
CosineOf(resume_text, jd_text) ==
    IF Terms(resume_text) \cap Terms(jd_text) = {} THEN 0 ELSE 333333

\* the path of the temporary file of a run: a fresh name with the suffix
TempPath(run, suffix) == <<47, 116, 109, 112, 47, 116, 109, 112>> (* "/tmp/tmp" *) \o <<48 + run>> \o suffix

\* a box shown to the user
Box(kind, detail) == [kind |-> kind, detail |-> detail]

(* ------------------------------ App.run() ------------------------------ *)

\* a session's script starts to run (a user interaction)
Start(t) ==
    /\ pc[t] \in {"idle", "done"}
    /\ runs < MaxRuns
    /\ runs' = runs + 1
    /\ loc' = [loc EXCEPT ![t] = [Locals0 EXCEPT !.run = runs + 1]]
    /\ pc' = [pc EXCEPT ![t] = "ensure"]
    /\ UNCHANGED <<call, ret, nlp, nlp_jm, loads, disk>>

\* ensure_job_matcher_nlp_loaded, line 32: if job_matcher.nlp_jm is None
EnsureJobMatcher(t) ==
    /\ pc[t] = "ensure"
    /\ pc' = [pc EXCEPT ![t] = IF nlp_jm = Unset THEN "jm_check" ELSE "ui"]
    /\ UNCHANGED <<call, ret, nlp, nlp_jm, loads, disk, runs, loc>>

\* load_spacy_model_for_job_matcher, line 11: if nlp_jm is None
JmCheck(t) ==
    /\ pc[t] = "jm_check"
    /\ pc' = [pc EXCEPT ![t] = IF nlp_jm = Unset THEN "jm_load" ELSE "ui"]
    /\ UNCHANGED <<call, ret, nlp, nlp_jm, loads, disk, runs, loc>>

\* a load whose exception handler clears the handle (nlp_jm = None)
JmLoad_resets(t) ==
    /\ pc[t] = "jm_load"
    /\ \/ /\ nlp_jm' = Loaded
          /\ loads' = [loads EXCEPT !.jm = @ + 1]
          /\ UNCHANGED loc
       \/ /\ loc' = [loc EXCEPT ![t].jm_failed = TRUE]
          /\ nlp_jm' = Unset
          /\ UNCHANGED loads
    /\ pc' = [pc EXCEPT ![t] = "ui"]
    /\ UNCHANGED <<call, ret, nlp, disk, runs>>

\* load_spacy_model_for_job_matcher, lines 12-21: spacy.load returns and
\* nlp_jm is assigned, or it raises and the exception is printed and dropped
JmLoad(t) ==
    /\ pc[t] = "jm_load"
    /\ \/ /\ nlp_jm' = Loaded
          /\ loads' = [loads EXCEPT !.jm = @ + 1]
          /\ UNCHANGED loc
       \/ /\ loc' = [loc EXCEPT ![t].jm_failed = TRUE]
          /\ UNCHANGED <<nlp_jm, loads>>
    /\ pc' = [pc EXCEPT ![t] = "ui"]
    /\ UNCHANGED <<call, ret, nlp, disk, runs>>

\* run, lines 53-72 and 158-196: the widgets are read; the analysis starts
\* when its button is pressed, a file is uploaded and the job description
\* is not blank, and otherwise the run ends
ReadWidgets(t) ==
    /\ pc[t] = "ui"
    /\ \E choice \in {"Resume Analysis", "About"}, analyze_button \in BOOLEAN,
          uploaded \in Uploads \cup {NoUpload}, jd \in JobDescriptions :
          IF choice = "Resume Analysis" /\ analyze_button /\ uploaded # NoUpload
                /\ Truthy(strip(jd))
          THEN /\ loc' = [loc EXCEPT ![t].analysing = TRUE,
                                     ![t].uploaded = uploaded, ![t].jd = jd]
               /\ pc' = [pc EXCEPT ![t] = "stage"]
          ELSE /\ loc' = loc
               /\ pc' = [pc EXCEPT ![t] = "done"]
    /\ UNCHANGED <<call, ret, nlp, nlp_jm, loads, disk, runs>>

\* run, line 76: NamedTemporaryFile(delete=False, suffix=...) creates the
\* file, or raises; an exception goes to the handler of line 149
Stage(t) ==
    /\ pc[t] = "stage"
    /\ \/ /\ disk' = disk \cup {loc[t].run}
          /\ loc' = [loc EXCEPT ![t].created = loc[t].run]
          /\ pc' = [pc EXCEPT ![t] = "write"]
       \/ /\ loc' = [loc EXCEPT ![t].shown = Append(@, Box("error", "unexpected"))]
          /\ pc' = [pc EXCEPT ![t] = "finally"]
          /\ UNCHANGED disk
    /\ UNCHANGED <<call, ret, nlp, nlp_jm, loads, runs>>

\* run, lines 77-80: the uploaded bytes are written and temp_file_path is
\* assigned, then parse_resume is called; or the write raises, the with
\* block closes the file (delete=False keeps it) and the handler of line
\* 149 runs with temp_file_path still None
Write(t) ==
    /\ pc[t] = "write"
    /\ \/ /\ loc' = [loc EXCEPT
                ![t].temp_file_path = loc[t].created,
                ![t].caller = "run",
                ![t].file_path = TempPath(loc[t].created,
                                          splitext_ext(loc[t].uploaded.name)),
                ![t].found = loc[t].uploaded.content]
          /\ pc' = [pc EXCEPT ![t] = "parse_check"]
       \/ /\ loc' = [loc EXCEPT ![t].shown = Append(@, Box("error", "unexpected"))]
          /\ pc' = [pc EXCEPT ![t] = "finally"]
    /\ UNCHANGED <<call, ret, nlp, nlp_jm, loads, disk, runs>>

(* ---------------------------- parse_resume ----------------------------- *)

\* parse_resume returns data to its caller
ReturnFromParse(t, data) ==
    [loc[t] EXCEPT !.resume_data = data]

\* where parse_resume's caller goes on
AfterParse(t) == IF loc[t].caller = "run" THEN "analyse" ELSE "main_done"

\* parse_resume, line 168: if nlp is None
ParseCheck(t) ==
    /\ pc[t] = "parse_check"
    /\ pc' = [pc EXCEPT ![t] = IF nlp = Unset THEN "parse_load" ELSE "parse_extract"]
    /\ UNCHANGED <<call, ret, nlp, nlp_jm, loads, disk, runs, loc>>

\* parse_resume, lines 169-184: spacy.load returns and nlp is assigned; or
\* it raises OSError and a download is attempted; or it raises another
\* exception and an error dict is returned
ParseLoad(t) ==
    /\ pc[t] = "parse_load"
    /\ \/ /\ nlp' = Loaded
          /\ loads' = [loads EXCEPT !.parser = @ + 1]
          /\ pc' = [pc EXCEPT ![t] = "parse_extract"]
          /\ UNCHANGED loc
       \/ /\ pc' = [pc EXCEPT ![t] = "parse_download"]
          /\ UNCHANGED <<nlp, loads, loc>>
       \/ /\ loc' = [loc EXCEPT ![t] =
                [ReturnFromParse(t, ErrorRecord("Unexpected error loading spaCy model."))
                    EXCEPT !.nlp_failed = TRUE]]
          /\ pc' = [pc EXCEPT ![t] = AfterParse(t)]
          /\ UNCHANGED <<nlp, loads>>
    /\ UNCHANGED <<call, ret, nlp_jm, disk, runs>>

\* parse_resume, lines 175-181: after the download spacy.load returns and
\* nlp is assigned, or either raises and an error dict is returned
ParseDownload(t) ==
    /\ pc[t] = "parse_download"
    /\ \/ /\ nlp' = Loaded
          /\ loads' = [loads EXCEPT !.parser = @ + 1]
          /\ pc' = [pc EXCEPT ![t] = "parse_extract"]
          /\ UNCHANGED loc
       \/ /\ loc' = [loc EXCEPT ![t] =
                [ReturnFromParse(t, ErrorRecord(
                    "spaCy model 'en_core_web_sm' not available or failed to download."))
                    EXCEPT !.nlp_failed = TRUE]]
          /\ pc' = [pc EXCEPT ![t] = AfterParse(t)]
          /\ UNCHANGED <<nlp, loads>>
    /\ UNCHANGED <<call, ret, nlp_jm, disk, runs>>

\* parse_resume, lines 187-212: the text is extracted; without text, or with
\* nlp unset, an error dict is returned, and otherwise the fields are
\* extracted from the text and returned
ParseExtract(t) ==
    /\ pc[t] = "parse_extract"
    /\ LET text == extract_text_from_file(loc[t].file_path, loc[t].found)
       IN  IF NoTextExtracted(text)
           THEN loc' = [loc EXCEPT ![t] =
                    [ReturnFromParse(t, ErrorRecord("Could not extract text"))
                        EXCEPT !.text = text]]
           ELSE IF nlp = Unset
           THEN loc' = [loc EXCEPT ![t] =
                    [ReturnFromParse(t, ErrorRecord(
                        "spaCy nlp object not initialized before processing text."))
                        EXCEPT !.text = text]]
           ELSE \E ents \in EntsOf(text), sents \in SentsOf(text) :
                  loc' = [loc EXCEPT ![t] =
                    [ReturnFromParse(t, FieldsOf(text, ents, sents))
                        EXCEPT !.text = text, !.ents = ents, !.sents = sents,
                               !.fields_ran = TRUE]]
    /\ pc' = [pc EXCEPT ![t] = AfterParse(t)]
    /\ UNCHANGED <<call, ret, nlp, nlp_jm, loads, disk, runs>>

(* ------------------------ App.run(), continued ------------------------- *)

\* the boxes of lines 90-97: a warning when nlp_jm is unset, then success
AnalysisBoxes(shown) ==
    Append(IF nlp_jm = Unset
           THEN Append(shown, Box("warning", "spaCy model for Job Matcher not available."))
           ELSE shown,
           Box("success", "Analysis Complete!"))

\* run, lines 82-147: an error dict of parse_resume is shown with st.error
\* and the run returns; otherwise the score, the skills of the job
\* description (none, with a warning, when nlp_jm is unset) and the skill
\* comparison are computed, success is shown and the dashboard is drawn,
\* a failure of which is shown by the handler of line 149
Analyse(t) ==
    /\ pc[t] = "analyse"
    /\ IF "error" \in DOMAIN loc[t].resume_data
       THEN loc' = [loc EXCEPT ![t].shown =
                       Append(@, Box("error", loc[t].resume_data.error))]
       ELSE \E drawn \in BOOLEAN :
              loc' = [loc EXCEPT
                ![t].score = match_resume_to_jd(
                                loc[t].resume_data.text, loc[t].jd, "none",
                                CosineOf(loc[t].resume_data.text, loc[t].jd)).value,
                ![t].jd_skills = extract_skills_from_text(loc[t].jd, nlp_jm),
                ![t].resume_skills = loc[t].resume_data.skills,
                ![t].comparison = compare_skills(
                                loc[t].resume_data.skills,
                                extract_skills_from_text(loc[t].jd, nlp_jm)),
                ![t].shown = IF drawn THEN AnalysisBoxes(@)
                             ELSE Append(AnalysisBoxes(@), Box("error", "unexpected"))]
    /\ pc' = [pc EXCEPT ![t] = "finally"]
    /\ UNCHANGED <<call, ret, nlp, nlp_jm, loads, disk, runs>>

\* run, lines 151-156: if temp_file_path is set and the file exists,
\* os.remove removes it, or raises, which st.error shows
Finally(t) ==
    /\ pc[t] = "finally"
    /\ IF loc[t].temp_file_path # 0 /\ loc[t].temp_file_path \in disk
       THEN \/ /\ disk' = disk \ {loc[t].temp_file_path}
               /\ UNCHANGED loc
            \/ /\ loc' = [loc EXCEPT ![t].shown =
                            Append(@, Box("error", "Error removing temporary file"))]
               /\ UNCHANGED disk
       ELSE UNCHANGED <<disk, loc>>
    /\ pc' = [pc EXCEPT ![t] = "done"]
    /\ UNCHANGED <<call, ret, nlp, nlp_jm, loads, runs>>

\* one step of a session
Step(t) ==
    \/ Start(t)
    \/ EnsureJobMatcher(t)
    \/ JmCheck(t)
    \/ JmLoad(t)
    \/ ReadWidgets(t)
    \/ Stage(t)
    \/ Write(t)
    \/ ParseCheck(t)
    \/ ParseLoad(t)
    \/ ParseDownload(t)
    \/ ParseExtract(t)
    \/ Analyse(t)
    \/ Finally(t)

Init ==
    /\ call = NoCall
    /\ ret = NoRet
    /\ InitApp

\* the sessions' threads run interleaved
Next == \E t \in Sessions : Step(t)

\* the application serving its sessions concurrently
Spec == Init /\ [][Next]_vars

\* no other session is in the middle of a run
Alone(t) == \A u \in Sessions \ {t} : pc[u] \in {"idle", "done"}

\* a session's script starts to run while no other run is under way
StartAlone(t) == Alone(t) /\ Start(t)

\* one run at a time: a run starts only when no other is under way
NextSeq ==
    \E t \in Sessions :
        \/ StartAlone(t)
        \/ EnsureJobMatcher(t)
        \/ JmCheck(t)
        \/ JmLoad(t)
        \/ ReadWidgets(t)
        \/ Stage(t)
        \/ Write(t)
        \/ ParseCheck(t)
        \/ ParseLoad(t)
        \/ ParseDownload(t)
        \/ ParseExtract(t)
        \/ Analyse(t)
        \/ Finally(t)

\* the application when its runs do not overlap
SpecSeq == Init /\ [][NextSeq]_vars

(* --------------------- direct calls of parse_resume -------------------- *)

\* the script that calls parse_resume (resume_parser.py run as a program)
Main == 1

\* paths handed to parse_resume
Paths == {None, <<>>, <<99, 118, 46, 112, 100, 102>> (* "cv.pdf" *), <<99, 118, 46, 100, 111, 99, 120>> (* "cv.docx" *), <<99, 118, 46, 116, 120, 116>> (* "cv.txt" *), <<67, 86, 46, 80, 68, 70>> (* "CV.PDF" *), <<112, 100, 102>> (* "pdf" *) }

\* what the readers may find at a path
Contents ==
    {Missing, Corrupt, <<>>, <<80, 121, 116, 104, 111, 110, 32, 100, 101, 118>> (* "Python dev" *),
     <<74, 97, 110, 101, 32, 68, 111, 101, 32, 106, 100, 64, 120, 46, 105, 111, 32, 49, 50, 51, 45, 52, 53, 54, 45, 55, 56, 57, 48>> (* "Jane Doe jd@x.io 123-456-7890" *),
     <<66, 83, 99, 32, 97, 116, 32, 84, 101, 99, 104, 32, 85, 110, 105, 118, 101, 114, 115, 105, 116, 121, 46, 32, 83, 107, 105, 108, 108, 115, 58, 32, 115, 113, 108>> (* "BSc at Tech University. Skills: sql" *) }

\* resume_parser.py line 230: the script calls parse_resume(file_path)
MainCall ==
    /\ pc[Main] \in {"idle", "main_done"}
    /\ runs < MaxRuns
    /\ runs' = runs + 1
    /\ \E file_path \in Paths, found \in Contents :
          loc' = [loc EXCEPT ![Main] =
                    [Locals0 EXCEPT !.run = runs + 1, !.caller = "main",
                                    !.file_path = file_path, !.found = found]]
    /\ pc' = [pc EXCEPT ![Main] = "parse_check"]
    /\ UNCHANGED <<call, ret, nlp, nlp_jm, loads, disk>>

NextParse ==
    \/ MainCall
    \/ ParseCheck(Main)
    \/ ParseLoad(Main)
    \/ ParseDownload(Main)
    \/ ParseExtract(Main)

\* a program that calls parse_resume a number of times
SpecParse == Init /\ [][NextParse]_vars

(* ------------- threads that call the two loaders directly -------------- *)

\* the files handed to parse_resume by these callers: path and content
CallerFiles ==
    {[file_path |-> <<99, 118, 46, 112, 100, 102>> (* "cv.pdf" *), found |-> <<80, 121, 116, 104, 111, 110, 32, 100, 101, 118>> (* "Python dev" *) ],
     [file_path |-> <<99, 118, 46, 112, 100, 102>> (* "cv.pdf" *), found |-> Corrupt]}

\* a caller's locals at the start of a call
CallerLocals(t) ==
    [Locals0 EXCEPT !.run = runs + 1, !.caller = "main",
                    !.before = [jm_failed  |-> loc[t].jm_failed,
                                nlp_failed |-> loc[t].nlp_failed]]

\* a thread calls App.ensure_job_matcher_nlp_loaded()
EnsureCall(t) ==
    /\ pc[t] \in {"idle", "main_done"}
    /\ runs < MaxRuns
    /\ runs' = runs + 1
    /\ loc' = [loc EXCEPT ![t] = CallerLocals(t)]
    /\ pc' = [pc EXCEPT ![t] = "ensure"]
    /\ UNCHANGED <<call, ret, nlp, nlp_jm, loads, disk>>

\* ensure_job_matcher_nlp_loaded returns to a thread that called it
EnsureReturn(t) ==
    /\ pc[t] = "ui"
    /\ loc[t].caller = "main"
    /\ pc' = [pc EXCEPT ![t] = "main_done"]
    /\ UNCHANGED <<call, ret, nlp, nlp_jm, loads, disk, runs, loc>>

\* a thread calls resume_parser.parse_resume(file_path)
ParseCall(t) ==
    /\ pc[t] \in {"idle", "main_done"}
    /\ runs < MaxRuns
    /\ runs' = runs + 1
    /\ \E f \in CallerFiles :
          loc' = [loc EXCEPT ![t] =
                    [CallerLocals(t) EXCEPT !.file_path = f.file_path,
                                            !.found = f.found]]
    /\ pc' = [pc EXCEPT ![t] = "parse_check"]
    /\ UNCHANGED <<call, ret, nlp, nlp_jm, loads, disk>>

NextCallers ==
    \E t \in Sessions :
        \/ EnsureCall(t)
        \/ EnsureJobMatcher(t)
        \/ JmCheck(t)
        \/ JmLoad(t)
        \/ EnsureReturn(t)
        \/ ParseCall(t)
        \/ ParseCheck(t)
        \/ ParseLoad(t)
        \/ ParseDownload(t)
        \/ ParseExtract(t)

\* threads of one process that call the two loaders, at any time
SpecCallers == Init /\ [][NextCallers]_vars

(* ------------------- direct calls of the pure functions ---------------- *)

\* skill strings handed to compare_skills
SkillStrs == { <<112, 121, 116, 104, 111, 110>> (* "python" *), <<80, 121, 116, 104, 111, 110>> (* "Python" *), <<83, 81, 76>> (* "SQL" *), <<115, 113, 108>> (* "sql" *), <<106, 97, 118, 97>> (* "java" *) }

\* words of the texts handed to skill extraction
Words == { <<112, 121, 116, 104, 111, 110>> (* "python" *), <<80, 89, 84, 72, 79, 78>> (* "PYTHON" *), <<83, 113, 108>> (* "Sql" *), <<109, 97, 99, 104, 105, 110, 101>> (* "machine" *), <<76, 101, 97, 114, 110, 105, 110, 103>> (* "Learning" *),
           <<116, 121, 112, 101, 115, 99, 114, 105, 112, 116>> (* "typescript" *), <<104, 101, 108, 108, 111>> (* "hello" *), <<99, 43, 43>> (* "c++" *), <<103, 105, 116, 104, 117, 98>> (* "github" *), <<106, 97, 118, 97, 115, 99, 114, 105, 112, 116>> (* "javascript" *) }

\* words of the texts handed to the scorer
ScoreWords == { <<80, 121, 116, 104, 111, 110>> (* "Python" *), <<116, 104, 101>> (* "the" *), <<115, 113, 108>> (* "sql" *) }

\* the texts of at most MaxWords words over a set of words
TextsOver(W) == {Join(ws, <<32>>) : ws \in SeqsUpTo(W, MaxWords)}

\* texts handed to extract_phone: an optional lead, country code, area code,
\* separators, exchange, line number and trailer
PhoneTexts ==
    {lead \o cc \o area \o s2 \o <<52, 53, 54>> (* "456" *) \o s3 \o line \o trail :
        lead  \in {<<>>, <<84, 101, 108, 58, 32>> (* "Tel: " *)},
        cc    \in {<<>>, <<43, 49, 32>> (* "+1 " *), <<49, 45>> (* "1-" *), <<43, 57, 49>> (* "+91" *)},
        area  \in { <<40, 49, 50, 51, 41>> (* "(123)" *), <<49, 50, 51>> (* "123" *), <<49, 50>> (* "12" *) },
        s2    \in {<<>>, <<32>> (* " " *), <<46>> (* "." *)},
        s3    \in {<<>>, <<45>> (* "-" *)},
        line  \in { <<55, 56, 57, 48>> (* "7890" *), <<55, 56, 57>> (* "789" *) },
        trail \in {<<>>, <<32, 40, 50, 50, 50, 41, 32, 51, 51, 51, 45, 52, 52, 52, 52>> (* " (222) 333-4444" *) }}
    \cup {None, <<>>, <<110, 111, 32, 112, 104, 111, 110, 101, 32, 104, 101, 114, 101>> (* "no phone here" *) }

\* cosines the library may compute, in millionths
Cosines == {0, 50, 150, 1000000}

CompareCalls ==
    {[fn |-> "compare_skills", resume_skills |-> a, jd_skills |-> b] :
        a \in SeqsUpTo(SkillStrs, MaxListLen), b \in SeqsUpTo(SkillStrs, MaxListLen)}

ExtractSkillsCalls ==
    {[fn |-> "extract_skills", text_doc |-> d] :
        d \in SeqsUpTo(Words, MaxWords) \cup {NoneDoc}}

ExtractSkillsFromTextCalls ==
    {[fn |-> "extract_skills_from_text", text |-> t, nlp_instance |-> h] :
        t \in TextsOver(Words) \cup {None}, h \in {Unset, Loaded}}

ExtractPhoneCalls ==
    {[fn |-> "extract_phone", text |-> t] : t \in PhoneTexts}

\* the library's cosine is 0 exactly when the two texts share no term
MatchCalls ==
    {c \in [fn : {"match_resume_to_jd"},
            resume_text : TextsOver(ScoreWords) \cup {None},
            jd_text : TextsOver(ScoreWords) \cup {None},
            fault : {"none", "fit_transform", "cosine_similarity"},
            cos : Cosines] :
        (Truthy(c.resume_text) /\ Truthy(c.jd_text)) =>
            (c.cos = 0 <=> Terms(c.resume_text) \cap Terms(c.jd_text) = {})}

InitPure ==
    /\ \/ call \in CompareCalls
       \/ call \in ExtractSkillsCalls
       \/ call \in ExtractSkillsFromTextCalls
       \/ call \in ExtractPhoneCalls
       \/ call \in MatchCalls
    /\ ret = NoRet
    /\ InitApp

CallCompareSkills ==
    /\ call.fn = "compare_skills"
    /\ ret = NoRet
    /\ ret' = [value |-> compare_skills(call.resume_skills, call.jd_skills)]
    /\ UNCHANGED <<call, appVars>>

CallExtractSkills ==
    /\ call.fn = "extract_skills"
    /\ ret = NoRet
    /\ ret' = [value |-> extract_skills(call.text_doc)]
    /\ UNCHANGED <<call, appVars>>

CallExtractSkillsFromText ==
    /\ call.fn = "extract_skills_from_text"
    /\ ret = NoRet
    /\ ret' = [value |-> extract_skills_from_text(call.text, call.nlp_instance)]
    /\ UNCHANGED <<call, appVars>>

CallExtractPhone ==
    /\ call.fn = "extract_phone"
    /\ ret = NoRet
    /\ ret' = [value |-> extract_phone(call.text)]
    /\ UNCHANGED <<call, appVars>>

CallMatchResumeToJd ==
    /\ call.fn = "match_resume_to_jd"
    /\ ret = NoRet
    /\ ret' = [value |-> match_resume_to_jd(call.resume_text, call.jd_text,
                                             call.fault, call.cos)]
    /\ UNCHANGED <<call, appVars>>

NextPure ==
    \/ CallCompareSkills
    \/ CallExtractSkills
    \/ CallExtractSkillsFromText
    \/ CallExtractPhone
    \/ CallMatchResumeToJd

SpecPure == InitPure /\ [][NextPure]_vars

(* ------------------------------- claims -------------------------------- *)

\* the direct call of fn has returned
Returned(fn) == call.fn = fn /\ ret # NoRet

\* a list holds no element twice
NoDuplicates(xs) == Cardinality(ToSet(xs)) = Len(xs)

\* the lowercase forms of the elements of a list
LowerSet(xs) == {lower(xs[i]) : i \in 1..Len(xs)}

\* C1: for all skill lists A and B, empty ones included, compare_skills
\* returns matched_skills = lower(A) \cap lower(B), missing_skills =
\* lower(B) \ lower(A) and jd_skills_parsed = lower(B), each without
\* duplicates; matched and missing are disjoint and their union is the JD
\* skill set.
C1_CompareIsSetAlgebra ==
    Returned("compare_skills") =>
        LET A == LowerSet(call.resume_skills)
            B == LowerSet(call.jd_skills)
            r == ret.value
        IN  /\ ToSet(r.matched_skills) = A \cap B
            /\ ToSet(r.missing_skills) = B \ A
            /\ ToSet(r.jd_skills_parsed) = B
            /\ NoDuplicates(r.matched_skills)
            /\ NoDuplicates(r.missing_skills)
            /\ NoDuplicates(r.jd_skills_parsed)
            /\ ToSet(r.matched_skills) \cap ToSet(r.missing_skills) = {}
            /\ ToSet(r.matched_skills) \cup ToSet(r.missing_skills) = B

\* C1 witness: a call with mixed-case lists that share a skill only after
\* lowercasing has returned, one skill matched and one missing
C1_Witness ==
    /\ Returned("compare_skills")
    /\ call.resume_skills = << <<80, 121, 116, 104, 111, 110>> (* "Python" *) >>
    /\ call.jd_skills = << <<112, 121, 116, 104, 111, 110>> (* "python" *), <<83, 81, 76>> (* "SQL" *) >>
    /\ ret.value.matched_skills = << <<112, 121, 116, 104, 111, 110>> (* "python" *) >>
    /\ ret.value.missing_skills = << <<115, 113, 108>> (* "sql" *) >>

\* the keys of the fixed skill vocabulary (the two default lists)
VocabularyKeys == ToSet(skills_list) \cup ToSet(predefined_skills_list)

\* every element of a skill list is a lowercase vocabulary key
OnlyVocabularySkills(xs) ==
    \A i \in 1..Len(xs) : xs[i] = lower(xs[i]) /\ xs[i] \in VocabularyKeys

\* some vocabulary phrase occurs in the document: its words are consecutive
\* tokens of the document, compared in lowercase
SomePhraseOccurs(doc) ==
    \E n \in 1..Len(skills_list) : \E i \in 1..Len(doc) :
        LET ws == split(skills_list[n])
        IN  /\ i + Len(ws) - 1 <= Len(doc)
            /\ \A k \in 1..Len(ws) : lower(doc[i + k - 1]) = ws[k]

\* C2 as stated: every skill list produced by skill extraction (resume-side
\* extract_skills and JD-side extract_skills_from_text) contains only
\* lowercase strings that are keys of the skill vocabulary, for every input,
\* texts without any vocabulary phrase included.
C2_Original_OnlyVocabularySkills ==
    (Returned("extract_skills") \/ Returned("extract_skills_from_text")) =>
        OnlyVocabularySkills(ret.value)

\* C2 as amended: every list produced by JD-side extract_skills_from_text,
\* and by resume-side extract_skills on a document in which some vocabulary
\* phrase occurs, is non-duplicated lowercase vocabulary keys only; on a
\* document in which none occurs extract_skills returns the one-element
\* sentinel list "No specific skills found from the predefined list", and
\* without a document the one-element list "Skills Not Found (No document
\* processed)", neither of which is a vocabulary key.
C2_VocabularySkillsOrSentinel ==
    /\ Returned("extract_skills_from_text") => OnlyVocabularySkills(ret.value)
    /\ Returned("extract_skills") =>
        IF call.text_doc = NoneDoc
        THEN ret.value = SkillsNoDocument
        ELSE IF SomePhraseOccurs(call.text_doc)
             THEN ret.value # <<>> /\ OnlyVocabularySkills(ret.value)
             ELSE ret.value = SkillsNoneFound
    /\ ~OnlyVocabularySkills(SkillsNoneFound)
    /\ ~OnlyVocabularySkills(SkillsNoDocument)

\* C2 witness: both extractions have met an upper-case "PYTHON" and returned
\* the vocabulary key "python"; here the resume-side one
C2_Witness ==
    /\ Returned("extract_skills")
    /\ call.text_doc = << <<80, 89, 84, 72, 79, 78>> (* "PYTHON" *), <<104, 101, 108, 108, 111>> (* "hello" *) >>
    /\ ret.value = << <<112, 121, 116, 104, 111, 110>> (* "python" *) >>

\* the first match of phone_regex in a text that has one
FirstPhoneMatch(text) == ScanFrom(text, 1)[1]

\* C3 as stated: when the phone pattern matches, extract_phone returns the
\* whole matched number with every non-digit removed (country code, area
\* code, exchange and line number), "(123) 456-7890" yielding "1234567890";
\* when nothing matches it returns "Phone Not Found".
C3_PhoneIsFullMatchDigits ==
    (Returned("extract_phone") /\ call.text # None) =>
        /\ IF ScanFrom(call.text, 1) # <<>>
           THEN ret.value = DigitsOnly(FirstPhoneMatch(call.text).full)
           ELSE ret.value = PhoneNotFound
        /\ call.text = <<40, 49, 50, 51, 41, 32, 52, 53, 54, 45, 55, 56, 57, 48>> (* "(123) 456-7890" *) => ret.value = <<49, 50, 51, 52, 53, 54, 55, 56, 57, 48>> (* "1234567890" *)

\* C9: match_resume_to_jd returns 0.0 whenever the resume text or the
\* job-description text is empty or missing, whatever the other argument,
\* and without invoking vectorization.
C9_EmptyTextScoresZero ==
    (Returned("match_resume_to_jd")
        /\ (call.resume_text \in {None, <<>>} \/ call.jd_text \in {None, <<>>})) =>
        /\ ret.value.value = 0
        /\ ~ret.value.vectorized
        /\ ~ret.value.raised

\* C9 witness: a call with an empty job description and a resume full of
\* terms has returned
C9_Witness ==
    /\ Returned("match_resume_to_jd")
    /\ call.jd_text = <<>>
    /\ call.resume_text = <<80, 121, 116, 104, 111, 110, 32, 115, 113, 108>> (* "Python sql" *)
    /\ call.cos # 0
    /\ ret.value.value = 0

\* C10: match_resume_to_jd never raises: a failure inside vectorization or
\* cosine similarity (both texts made of stop words only, so that the
\* vocabulary is empty, or a fault of either library call) becomes the
\* return value 0.0.
C10_ScorerNeverRaises ==
    Returned("match_resume_to_jd") =>
        /\ ~ret.value.raised
        /\ (ret.value.vectorized
              /\ (call.fault # "none"
                    \/ Terms(call.resume_text) \cup Terms(call.jd_text) = {}))
            => ret.value.value = 0

\* C10 witness: a call on two texts of stop words only has invoked the
\* vectorizer, which found no vocabulary, and has returned 0.0
C10_Witness ==
    /\ Returned("match_resume_to_jd")
    /\ call.resume_text = <<116, 104, 101>> (* "the" *)
    /\ call.jd_text = <<116, 104, 101, 32, 116, 104, 101>> (* "the the" *)
    /\ call.fault = "none"
    /\ ret.value.vectorized
    /\ ret.value = [value |-> 0, raised |-> FALSE, vectorized |-> TRUE]


\* the job matcher's handle is being loaded by session t
LoadingJm(t) == pc[t] = "jm_load"

\* the parser's handle is being loaded by session t
LoadingParser(t) == pc[t] \in {"parse_load", "parse_download"}

\* C4 as stated: a temporary file staged for an analysis is removed on every
\* exit path of the analysis (normal completion, a parse error, any
\* exception after the file was created, a failing write included): when
\* the handler has finished, its temporary file is not on disk.
C4_TempFileRemoved ==
    \A t \in Sessions :
        (pc[t] = "done" /\ loc[t].created # 0) => loc[t].created \notin disk

\* C5 as stated: when several callers make their first call while a model
\* handle is unset, the load of that handle is executed by at most one of
\* them: no two sessions load the same handle at once, and no handle is
\* loaded twice.
C5_AtMostOneLoadPerHandle ==
    /\ \A t, u \in Sessions :
          (t # u) => /\ ~(LoadingJm(t) /\ LoadingJm(u))
                     /\ ~(LoadingParser(t) /\ LoadingParser(u))
    /\ loads.jm <= 1
    /\ loads.parser <= 1

\* C6 as stated: over any sequence of analyses in one process the model is
\* loaded once: after the first successful load no later call loads it
\* again, the one load being shared by field extraction and JD skill
\* matching.
C6_SingleSharedLoad == loads.parser + loads.jm <= 1

\* a box of the given kind is shown to the user of session t
Shows(t, kind) == \E i \in 1..Len(loc[t].shown) : loc[t].shown[i].kind = kind

\* the error dicts with which parse_resume reports that the model is missing
ModelUnavailable ==
    {"spaCy model 'en_core_web_sm' not available or failed to download.",
     "Unexpected error loading spaCy model."}

\* C7 as stated: if the initialization of the language model fails during an
\* analysis, in the resume parser or in the job matcher, the analysis does
\* not complete as a success: it ends with a failure shown to the caller
\* that names the model as unavailable.  (Analyses in which something else
\* failed as well, and was shown as an error, are left aside.)
C7_ModelFailureFailsAnalysis ==
    \A t \in Sessions :
        (/\ pc[t] = "done"
         /\ loc[t].analysing
         /\ loc[t].jm_failed \/ loc[t].nlp_failed
         /\ \A i \in 1..Len(loc[t].shown) :
               loc[t].shown[i].kind = "error" => loc[t].shown[i].detail \in ModelUnavailable)
        => /\ ~Shows(t, "success")
           /\ \E i \in 1..Len(loc[t].shown) :
                 /\ loc[t].shown[i].kind = "error"
                 /\ loc[t].shown[i].detail \in ModelUnavailable

\* text extraction fails for this path and this content of the file: no
\* path, an extension other than .pdf and .docx, or a file that is missing
\* or cannot be decoded
ExtractionFails(file_path, found) ==
    \/ file_path = None
    \/ file_path = <<>>
    \/ ~(endswith(file_path, <<46, 112, 100, 102>> (* ".pdf" *)) \/ endswith(file_path, <<46, 100, 111, 99, 120>> (* ".docx" *)))
    \/ found \in {Missing, Corrupt}

\* C8: parse_resume returns an error record, and runs no field extraction,
\* whenever text extraction fails (no path, an extension other than .pdf
\* and .docx, a file the reader cannot open or decode); field extraction
\* only ever runs on a text that is neither None nor empty, and then the
\* record returned carries that text and no error.
C8_NoFieldsWithoutText ==
    (pc[Main] = "main_done") =>
        /\ ExtractionFails(loc[Main].file_path, loc[Main].found) =>
              /\ "error" \in DOMAIN loc[Main].resume_data
              /\ ~loc[Main].fields_ran
        /\ loc[Main].fields_ran =>
              /\ loc[Main].text # None
              /\ loc[Main].text # <<>>
              /\ "error" \notin DOMAIN loc[Main].resume_data
              /\ loc[Main].resume_data.text = loc[Main].text

\* C8 witness: with the model loaded, parse_resume was called on a readable
\* file with an unsupported extension and returned the extraction error
\* without extracting fields
C8_Witness ==
    /\ pc[Main] = "main_done"
    /\ nlp = Loaded
    /\ loc[Main].file_path = <<99, 118, 46, 116, 120, 116>> (* "cv.txt" *)
    /\ loc[Main].found = <<80, 121, 116, 104, 111, 110, 32, 100, 101, 118>> (* "Python dev" *)
    /\ loc[Main].resume_data = ErrorRecord("Could not extract text")
    /\ ~loc[Main].fields_ran


\* the keys parse_resume's record must have
FieldKeys == {"text", "name", "email", "phone", "education", "skills"}

\* a value of parse_resume's record is what its own extractor gives for the
\* text (and the Doc's entities and sentences), whatever the other fields
EachFieldOnItsOwn(d, text, ents, sents) ==
    /\ d.text = text
    /\ d.name = extract_name(ents)
    /\ d.email = extract_email(text)
    /\ d.phone = extract_phone(text)
    /\ d.education = extract_education(sents)
    /\ d.skills = extract_skills(Doc(text))

\* a value of parse_resume's record is its field's sentinel or a value
\* extracted from the text
ValueOrSentinel(d, text, ents, sents) ==
    /\ \/ d.name = NameNotFound
       \/ \E i \in 1..Len(ents) : ents[i][1] = PERSON /\ d.name = strip(ents[i][2])
    /\ \/ d.email = EmailNotFound
       \/ Contains(text, d.email) /\ 64 \in ToSet(d.email)
    /\ \/ d.phone = PhoneNotFound
       \/ d.phone # <<>> /\ \A i \in 1..Len(d.phone) : IsDigit(d.phone[i])
    /\ \/ d.education = EducationNotFound
       \/ \E i \in 1..Len(sents) : Contains(d.education, strip(sents[i]))
    /\ \/ d.skills = SkillsNoneFound
       \/ d.skills # <<>> /\ OnlyVocabularySkills(d.skills)

DetectedIn(xs) == IF xs = SkillsNoneFound THEN {} ELSE ToSet(xs)

\* C12: the skill vocabulary of the resume side and of the job-description
\* side is the same, and for every text both sides detect the same set of
\* skills: what extract_skills_from_text returns for a text is what the
\* resume side's matching finds in it, and what extract_skills returns for
\* a document is what the job-description side's matching finds in it (the
\* resume side writing its sentinel list for the empty set).
C12_SameVocabularySameSkills ==
    /\ skills_list = predefined_skills_list
    /\ (Returned("extract_skills_from_text")
          /\ call.nlp_instance = Loaded /\ Truthy(call.text)) =>
          /\ ToSet(ret.value) = FoundSkills(Doc(call.text), skills_list)
          /\ ToSet(ret.value) = DetectedIn(extract_skills(Doc(call.text)))
    /\ (Returned("extract_skills") /\ call.text_doc # NoneDoc) =>
          /\ DetectedIn(ret.value) = FoundSkills(call.text_doc, predefined_skills_list)
          /\ DetectedIn(ret.value) =
                ToSet(extract_skills_from_text(Join(call.text_doc, <<32>>), Loaded))

\* C12 witness: the job-description side has returned the two skills of a
\* text, which are the two the resume side detects in it
C12_Witness ==
    /\ Returned("extract_skills_from_text")
    /\ call.nlp_instance = Loaded
    /\ call.text = <<83, 113, 108, 32, 80, 89, 84, 72, 79, 78>> (* "Sql PYTHON" *)
    /\ ToSet(ret.value) = { <<115, 113, 108>> (* "sql" *), <<112, 121, 116, 104, 111, 110>> (* "python" *) }
    /\ ToSet(extract_skills(Doc(call.text))) = { <<115, 113, 108>> (* "sql" *), <<112, 121, 116, 104, 111, 110>> (* "python" *) }

\* a vocabulary phrase occurs in a token sequence: its words are consecutive
\* whole tokens of it, compared in lowercase
PhraseOccurs(skill, doc) ==
    LET ws == split(skill)
    IN  \E i \in 1..Len(doc) :
            /\ i + Len(ws) - 1 <= Len(doc)
            /\ \A k \in 1..Len(ws) : lower(doc[i + k - 1]) = ws[k]

\* the vocabulary phrases that occur in a token sequence
PhrasesIn(doc) == {skill \in VocabularyKeys : PhraseOccurs(skill, doc)}

\* a token sequence with every token in upper case, and in lower case
UpperDoc(doc) == [i \in 1..Len(doc) |-> upper(doc[i])]
LowerDoc(doc) == [i \in 1..Len(doc) |-> lower(doc[i])]

\* C13: skill matching over a token sequence returns exactly the vocabulary
\* phrases whose words occur as consecutive whole tokens, tokens compared
\* in lowercase: the result is the same for the text in upper and in lower
\* case, a vocabulary word that is part of a longer token ("git" in
\* "github") is not matched, and a phrase that occurs twice is returned
\* once.
C13_WholeTokenCaseInsensitive ==
    /\ (Returned("extract_skills_from_text")
          /\ call.nlp_instance = Loaded /\ Truthy(call.text)) =>
          /\ ToSet(ret.value) = PhrasesIn(Doc(call.text))
          /\ NoDuplicates(ret.value)
          /\ ToSet(extract_skills_from_text(upper(call.text), Loaded)) = ToSet(ret.value)
          /\ ToSet(extract_skills_from_text(lower(call.text), Loaded)) = ToSet(ret.value)
          /\ <<103, 105, 116, 104, 117, 98>> (* "github" *) \in ToSet(Doc(call.text)) /\ <<103, 105, 116>> (* "git" *) \in ToSet(ret.value)
                => \E i \in 1..Len(Doc(call.text)) : lower(Doc(call.text)[i]) = <<103, 105, 116>> (* "git" *)
    /\ (Returned("extract_skills") /\ call.text_doc # NoneDoc) =>
          /\ DetectedIn(ret.value) = PhrasesIn(call.text_doc)
          /\ NoDuplicates(ret.value)
          /\ extract_skills(UpperDoc(call.text_doc)) = ret.value
          /\ extract_skills(LowerDoc(call.text_doc)) = ret.value

\* C13 witness: a document that holds a skill twice, in upper and in lower
\* case, has given the skill once
C13_Witness ==
    /\ Returned("extract_skills")
    /\ call.text_doc = << <<80, 89, 84, 72, 79, 78>> (* "PYTHON" *), <<112, 121, 116, 104, 111, 110>> (* "python" *) >>
    /\ ret.value = << <<112, 121, 116, 104, 111, 110>> (* "python" *) >>

\* C13 witness of the token boundary: "github" and "javascript" have given
\* "javascript" alone, neither "git" nor "java"
C13_WitnessBoundary ==
    /\ Returned("extract_skills_from_text")
    /\ call.text = <<103, 105, 116, 104, 117, 98, 32, 106, 97, 118, 97, 115, 99, 114, 105, 112, 116>> (* "github javascript" *)
    /\ call.nlp_instance = Loaded
    /\ ret.value = << <<106, 97, 118, 97, 115, 99, 114, 105, 112, 116>> (* "javascript" *) >>


\* the sentinel string of a resume without vocabulary skills
NoSkillsSentinel == SkillsNoneFound[1]

\* session t's analysis has compared the skills
Compared(t) == pc[t] \in {"finally", "done"} /\ loc[t].comparison # NoData

\* C14 as stated: when the resume holds no vocabulary skill, run() treats
\* the sentinel list as "no skills": the sentinel is never handed to
\* compare_skills as a resume skill, and is never an element of the resume
\* skill set, of matched_skills or of missing_skills.
C14_SentinelIsNoSkill ==
    \A t \in Sessions :
        Compared(t) =>
            /\ NoSkillsSentinel \notin ToSet(loc[t].resume_skills)
            /\ lower(NoSkillsSentinel) \notin LowerSet(loc[t].resume_skills)
            /\ lower(NoSkillsSentinel) \notin ToSet(loc[t].comparison.matched_skills)
            /\ lower(NoSkillsSentinel) \notin ToSet(loc[t].comparison.missing_skills)

\* the part of C14 that the code keeps: the sentinel is never an element of
\* matched_skills or of missing_skills
C14_SentinelNeverMatchedOrMissing ==
    \A t \in Sessions :
        Compared(t) =>
            /\ lower(NoSkillsSentinel) \notin ToSet(loc[t].comparison.matched_skills)
            /\ lower(NoSkillsSentinel) \notin ToSet(loc[t].comparison.missing_skills)


\* a step never moves a handle that holds the model back to unset
HandlesStayLoaded ==
    /\ nlp = Loaded => nlp' = Loaded
    /\ nlp_jm = Loaded => nlp_jm' = Loaded

\* a step in which a load fails leaves the handle as it was, and a step
\* of a call that finds its handle unset goes on to load it: a failure is
\* not remembered
FailureIsNotCached ==
    \A t \in Sessions :
        /\ (~loc[t].jm_failed /\ loc'[t].jm_failed) => nlp_jm' = nlp_jm
        /\ (~loc[t].nlp_failed /\ loc'[t].nlp_failed) => nlp' = nlp
        /\ (pc[t] \in {"ensure", "jm_check"} /\ pc'[t] # pc[t] /\ nlp_jm = Unset)
              => pc'[t] \in {"jm_check", "jm_load"}
        /\ (pc[t] = "parse_check" /\ pc'[t] # pc[t] /\ nlp = Unset)
              => pc'[t] = "parse_load"

\* a handle holds the model exactly when a load of it has succeeded, and
\* fields have only been extracted with resume_parser.nlp loaded
LoadedWhenUsed ==
    /\ nlp \in {Unset, Loaded} /\ nlp_jm \in {Unset, Loaded}
    /\ nlp = Loaded <=> loads.parser >= 1
    /\ nlp_jm = Loaded <=> loads.jm >= 1
    /\ \A t \in Sessions : loc[t].fields_ran => nlp = Loaded

\* C15: each model handle (resume_parser.nlp, job_matcher.nlp_jm) only ever
\* moves from unset to loaded: a failed load leaves it unset, so that the
\* next parse_resume or ensure_job_matcher_nlp_loaded attempts the load
\* again; once a load has succeeded nothing resets the handle; and field
\* extraction never runs while resume_parser.nlp is unset.
C15_HandlesOnlyEverLoad ==
    /\ []LoadedWhenUsed
    /\ [][HandlesStayLoaded /\ FailureIsNotCached]_vars

\* C15 witness: a thread whose first call failed to load job_matcher.nlp_jm
\* is in its second call and loads the handle again
C15_Witness ==
    /\ loc[1].run = 2
    /\ loc[1].before.jm_failed
    /\ pc[1] = "jm_load"
    /\ nlp_jm = Unset
    /\ loads.jm = 0

=============================================================================
